---- MODULE Spec2Model ----
(***************************************************************************)
(* Quakemon: the data synchronisation logic of src/src/App.tsx.            *)
(*                                                                         *)
(* Representation.                                                         *)
(*  - A JavaScript string is a tuple of one-character strings, so that     *)
(*    trim, join and parseFloat are computed character by character.       *)
(*  - A nullable value (T | null) is a tuple of length 0 (null) or 1.      *)
(*  - btoa(JSON.stringify({latest, recent, felt})) is injective on the     *)
(*    three strings (Latin-1 text), so a data hash is the triple of those  *)
(*    strings; the empty string '' is the empty tuple.                     *)
(*  - The state setters a cycle calls after its last await run in one      *)
(*    synchronous block and are applied as one batch (React 18), and the   *)
(*    effect whose dependencies the batch changed runs with it.            *)
(***************************************************************************)
EXTENDS Integers, Sequences, FiniteSets, TLC

\* ------------------------------------------------------------------- state
VARIABLES
  latestEarthquake,   \* useState<EarthquakeData | null>(null)
  recentEarthquakes,  \* useState<RecentEarthquake[]>([])
  feltEarthquakes,    \* useState<RecentEarthquake[]>([])
  loading,            \* useState(true)
  error,              \* useState<string | null>(null)
  lastUpdated,        \* useState<Date | null>(null)
  autoUpdate,         \* useState(true)
  hasNewData,         \* useState(false)
  lastDataHash,       \* useState<string>('')
  cycles,             \* the calls of fetchAllEarthquakeData in flight, in start order
  timers,             \* the armed intervals, each with the callback it calls
  now,                \* the clock: new Date() reads an instant other than the
                      \* stored one; instants are kept modulo 2
  started,            \* history: the number of cycles started
  latestFresh,        \* history: the stored latest event was written by the commit that wrote the stored lists
  ev,                 \* history: what the last step did
  mounted             \* the component is mounted (its effects are not cleaned up)

vars == <<latestEarthquake, recentEarthquakes, feltEarthquakes, loading, error,
          lastUpdated, autoUpdate, hasNewData, lastDataHash,
          cycles, timers, now, started, latestFresh, ev, mounted>>

\* ------------------------------------------------------------------ bounds
MaxInFlight == 2      \* refresh cycles in flight at the same time
MaxCycles == 5        \* refresh cycles started in one run

\* ------------------------------------------------------- program constants
ListLimit == 15       \* slice(0, 15)
StrongMilli == 6000   \* 6.0, in thousandths

Null == <<>>
Some(v) == <<v>>

\* ----------------------------------------------------------------- strings
Digits == {"0", "1", "2", "3", "4", "5", "6", "7", "8", "9"}
WhiteSpace == {" "}

DigitVal(ch) ==
  CASE ch = "0" -> 0 [] ch = "1" -> 1 [] ch = "2" -> 2 [] ch = "3" -> 3
    [] ch = "4" -> 4 [] ch = "5" -> 5 [] ch = "6" -> 6 [] ch = "7" -> 7
    [] ch = "8" -> 8 [] ch = "9" -> 9

RECURSIVE TrimStart(_)
TrimStart(s) ==
  IF s # <<>> /\ Head(s) \in WhiteSpace THEN TrimStart(Tail(s)) ELSE s

RECURSIVE TrimEnd(_)
TrimEnd(s) ==
  IF s # <<>> /\ s[Len(s)] \in WhiteSpace
    THEN TrimEnd(SubSeq(s, 1, Len(s) - 1)) ELSE s

\* String.prototype.trim
Trim(s) == TrimEnd(TrimStart(s))

\* the longest prefix of s made of digits
RECURSIVE DigitPrefix(_)
DigitPrefix(s) ==
  IF s # <<>> /\ Head(s) \in Digits
    THEN <<Head(s)>> \o DigitPrefix(Tail(s)) ELSE <<>>

RECURSIVE IntOf(_)
IntOf(ds) ==
  IF ds = <<>> THEN 0
  ELSE 10 * IntOf(SubSeq(ds, 1, Len(ds) - 1)) + DigitVal(ds[Len(ds)])

\* the fraction digits ds as thousandths (digits after the third are dropped)
MilliOf(ds) ==
  LET d(i) == IF i <= Len(ds) THEN DigitVal(ds[i]) ELSE 0
  IN  100 * d(1) + 10 * d(2) + d(3)

NaN == [nan |-> TRUE, milli |-> 0]

\* parseFloat: leading white space is skipped, then an optional sign, then the
\* longest prefix  digits [ "." digits ]  or  "." digits ; NaN when there is
\* none.  The value is in thousandths.  (Exponents and "Infinity" are not in
\* the alphabet of the texts the model draws.)
parseFloat(str) ==
  LET s0 == TrimStart(str)
      signed == s0 # <<>> /\ Head(s0) \in {"-", "+"}
      neg == s0 # <<>> /\ Head(s0) = "-"
      s1 == IF signed THEN Tail(s0) ELSE s0
      ip == DigitPrefix(s1)
      s2 == SubSeq(s1, Len(ip) + 1, Len(s1))
      dot == s2 # <<>> /\ Head(s2) = "."
      fp == IF dot THEN DigitPrefix(Tail(s2)) ELSE <<>>
      mag == 1000 * IntOf(ip) + MilliOf(fp)
  IN  IF ip = <<>> /\ fp = <<>> THEN NaN
      ELSE [nan |-> FALSE, milli |-> IF neg THEN 0 - mag ELSE mag]

\* x >= y on JavaScript numbers: false when x is NaN
NumGE(x, milli) == ~x.nan /\ x.milli >= milli

\* x < y on JavaScript numbers: false when x is NaN
NumLT(x, milli) == ~x.nan /\ x.milli < milli

\* slice without its end index
Slice0_All(arr, n) == arr

\* Array.prototype.slice(0, n)
Slice0(arr, n) == SubSeq(arr, 1, IF Len(arr) < n THEN Len(arr) ELSE n)

\* e.DateTime of a list entry, as Array.prototype.join renders it: a missing
\* (undefined) DateTime is rendered as the empty string
DateTimeText(e) == IF "DateTime" \in DOMAIN e THEN e.DateTime ELSE <<>>

\* list.map(e => e.DateTime).join(',')
RECURSIVE JoinDateTimes(_)
JoinDateTimes(list) ==
  IF list = <<>> THEN <<>>
  ELSE IF Len(list) = 1 THEN DateTimeText(list[1])
  ELSE DateTimeText(list[1]) \o <<",">> \o JoinDateTimes(Tail(list))

\* generateDataHash with the magnitude of the latest event hashed as well
generateDataHash_WithMagnitude(latest, recent, felt) ==
  << IF latest # Null THEN latest[1].DateTime \o latest[1].Magnitude ELSE <<>>,
     JoinDateTimes(recent),
     JoinDateTimes(felt) >>

\* generateDataHash
generateDataHash(latest, recent, felt) ==
  << IF latest # Null THEN latest[1].DateTime ELSE <<>>,
     JoinDateTimes(recent),
     JoinDateTimes(felt) >>

\* ------------------------------------------------------ latest event (XML)
TagNames == {"Tanggal", "Jam", "DateTime", "coordinates", "Lintang", "Bujur",
             "Magnitude", "Kedalaman", "Wilayah", "Potensi", "Dirasakan",
             "Shakemap"}

\* getData without the trim
getData_Raw(doc, tagName) ==
  IF tagName \in DOMAIN doc.tags THEN doc.tags[tagName] ELSE <<>>

\* getData(tagName) inside parseXMLData
getData(doc, tagName) ==
  IF tagName \in DOMAIN doc.tags THEN Trim(doc.tags[tagName]) ELSE <<>>

\* parseXMLData: null when the document has no gempa element (the thrown
\* error is caught inside the function), else the record of the twelve tags
parseXMLData(doc) ==
  IF ~doc.hasGempa THEN Null
  ELSE Some([t \in TagNames |-> getData(doc, t)])

\* ------------------------------------------------------ list feeds (JSON)
\* ListOf with the list initialised from the stored list instead of []
ListOf_KeepOld(resp) ==
  IF resp.status # "ok" THEN recentEarthquakes
  ELSE IF ~resp.json THEN recentEarthquakes
  ELSE IF ~resp.hasList THEN <<>>
  ELSE Slice0(resp.gempa, ListLimit)

\* recentData.Infogempa?.gempa?.slice(0, 15) || []  applied to the outcome of
\* one list request: the list stays empty on a transport error, a non-ok
\* status and an unreadable body (the inner try/catch)
ListOf(resp) ==
  IF resp.status # "ok" THEN <<>>
  ELSE IF ~resp.json THEN <<>>
  ELSE IF ~resp.hasList THEN <<>>
  ELSE Slice0(resp.gempa, ListLimit)

\* ------------------------------------------------- what the feeds may return
T1 == <<"T", "1">>
T2 == <<"T", "2">>

XmlDoc(dt, mag) ==
  [hasGempa |-> TRUE,
   tags |-> [t \in {"DateTime", "Magnitude", "Wilayah"} |->
               CASE t = "DateTime" -> dt [] t = "Magnitude" -> mag
                 [] OTHER -> <<"A">>]]

\* a document without the gempa element
XmlNoRoot == [hasGempa |-> FALSE, tags |-> [t \in {} |-> <<>>]]

XmlFeed ==
  { XmlNoRoot,
    XmlDoc(T1, <<"7", ".", "0">>),
    XmlDoc(T2, <<" ", "5", ".", "9">>) }

\* the outcomes of a request: fetch rejects, a non-ok status, an ok status
FetchStatus == {"neterr", "notok", "ok"}

Entry(dt) == [DateTime |-> dt, Magnitude |-> <<"5", ".", "1">>]

ListBody(list) == [status |-> "ok", json |-> TRUE, hasList |-> TRUE, gempa |-> list]

RecentFeed == ListBody(<<Entry(T1)>>)

FeltFeed == ListBody(<<Entry(T2)>>)

\* the outcomes of the two list requests of one cycle, <<recent, felt>>
ListResponses ==
  { <<RecentFeed, FeltFeed>>,
    <<[status |-> "neterr"], FeltFeed>>,
    <<RecentFeed, [status |-> "notok"]>>,
    <<[status |-> "ok", json |-> FALSE], [status |-> "neterr"]>> }

\* the values Notification.permission is read as
Permissions == {"granted", "denied"}

ErrorText == <<"Gagal mengambil data gempa. Silakan coba lagi.">>

snapshot == <<latestEarthquake, recentEarthquakes, feltEarthquakes,
              lastDataHash, lastUpdated, hasNewData>>

NoEv == [kind |-> "none"]

\* the count of cycle starts after one more start; a run that begins with
\* started = 0 does not count its cycles
Counted(k) == IF k = 0 THEN 0 ELSE k + 1

\* a call of fetchAllEarthquakeData(silent) made through the callback that
\* closed over lastDataHash = h and hasNewData = n, up to its first await
NewCycle(origin, silent, h, n) ==
  [origin |-> origin, silent |-> silent, capHash |-> h, capHasNew |-> n,
   pc |-> "latest", superseded |-> FALSE]

\* the three sources of a cycle
Sources == {"latest", "recent", "felt"}

\* the requests cycle c has issued so far: each fetch is awaited before the
\* next one is made
Issued(c) ==
  CASE c.pc = "latest" -> {"latest"}
    [] c.pc = "recent" -> {"latest", "recent"}
    [] c.pc = "felt" -> {"latest", "recent", "felt"}

\* the interval armed by the effect: it calls the callback of that render
Timer(h, n) == [capHash |-> h, capHasNew |-> n]

RemoveAt(seq, i) == SubSeq(seq, 1, i - 1) \o SubSeq(seq, i + 1, Len(seq))

\* the cycles left in flight when cycle i commits: the ones started before it
\* have from now on been overtaken by the commit of a later cycle
AfterCommit(i) ==
  [j \in 1..(Len(cycles) - 1) |->
     IF j < i THEN [cycles[j] EXCEPT !.superseded = TRUE] ELSE cycles[j + 1]]

Init ==
  /\ latestEarthquake = Null
  /\ recentEarthquakes = <<>>
  /\ feltEarthquakes = <<>>
  /\ loading = TRUE
  /\ error = Null
  /\ lastUpdated = Null
  /\ autoUpdate = TRUE
  /\ hasNewData = FALSE
  /\ lastDataHash = <<>>
  /\ cycles = <<NewCycle("effect", FALSE, <<>>, FALSE)>>
  /\ timers = {Timer(<<>>, FALSE)}
  /\ now = 0
  /\ started = 1
  /\ latestFresh = TRUE
  /\ mounted = TRUE
  /\ ev = NoEv

\* --------------------------------------------- fetchAllEarthquakeData, parts
\* DataChanged without  && silent
DataChanged_NoSilent(c, newHash) ==
  c.capHash # <<>> /\ newHash # c.capHash

\* lastDataHash && newHash !== lastDataHash && silent, on the values the
\* callback closed over
DataChanged(c, newHash) ==
  c.capHash # <<>> /\ newHash # c.capHash /\ c.silent

\* parsedLatest && parseFloat(parsedLatest.Magnitude) >= 6.0
StrongQuake(parsedLatest) ==
  parsedLatest # Null /\ NumGE(parseFloat(parsedLatest[1].Magnitude), StrongMilli)

\* 'Notification' in window && Notification.permission === 'granted'
MayNotify(permission) == permission = "granted"

\* the notifications the change check of one cycle dispatches
Notifications(c, parsedLatest, newHash, permission) ==
  IF DataChanged(c, newHash) /\ StrongQuake(parsedLatest) /\ MayNotify(permission)
    THEN << [title |-> "Gempa Kuat Terdeteksi!",
             body |-> <<"M">> \o parsedLatest[1].Magnitude \o <<" ", "-", " ">>
                        \o parsedLatest[1].Wilayah] >>
    ELSE <<>>

\* setLatestEarthquake without the test of parsedLatest
CommittedLatest_Always(parsedLatest) == parsedLatest

\* setLatestEarthquake only if (parsedLatest)
CommittedLatest(parsedLatest) ==
  IF parsedLatest # Null THEN parsedLatest ELSE latestEarthquake

\* CommittedHasNew with setHasNewData(true) outside the change check
CommittedHasNew_Always(c, newHash) ==
  IF c.capHasNew /\ ~c.silent THEN FALSE
  ELSE IF c.silent THEN TRUE
  ELSE hasNewData

\* hasNewData after setHasNewData(true) of the change check and
\* setHasNewData(false) of  if (hasNewData && !silent)
CommittedHasNew(c, newHash) ==
  IF c.capHasNew /\ ~c.silent THEN FALSE
  ELSE IF DataChanged(c, newHash) THEN TRUE
  ELSE hasNewData

\* CatchError without setError
CatchError_Never(c) == error

\* catch (err): setError(...) if (!silent)
CatchError(c) == IF ~c.silent THEN ErrorText ELSE error

\* finally: setLoading(false) if (!silent)
FinallyLoading(c) == IF ~c.silent THEN FALSE ELSE loading

\* Cleanup without clearInterval
Cleanup_Keep(ts) == ts

\* the timers left by the cleanup of the effect: clearInterval(interval)
Cleanup(ts) == {}

\* the timers after a run of the effect: the cleanup of the run before, then
\* setInterval with the callback of this render if (autoUpdate)
Rearm(au, ts, h, n) ==
  IF au THEN Cleanup(ts) \cup {Timer(h, n)} ELSE Cleanup(ts)

\* the effect [autoUpdate, fetchAllEarthquakeData] runs again when autoUpdate
\* changed or the callback was re-created (lastDataHash or hasNewData changed)
EffectDeps(au, h, n) == <<au, h, n>>

\* ------------------------------------------------------------------ actions
\* A cycle reads nothing of the component between its first and its last
\* await: the bodies of its responses meet the state only in the synchronous
\* block after the last await.  The position of the cycle is kept per await;
\* the bodies are bound in the step that uses them (FeltResponse).

\* The latest-event request of cycle i resolves (fetch).  A rejected fetch or
\* a non-ok status is thrown to the outer catch and ends the cycle; otherwise
\* the cycle goes on to request the recent list.
LatestResponse(i, status) ==
  /\ mounted
  /\ i \in 1..Len(cycles)
  /\ cycles[i].pc = "latest"
  /\ LET c == cycles[i] IN
     IF status # "ok"
       THEN /\ cycles' = RemoveAt(cycles, i)
            /\ error' = CatchError(c)
            /\ loading' = FinallyLoading(c)
            /\ ev' = [kind |-> "fail", i |-> i, origin |-> c.origin,
                      silent |-> c.silent, status |-> status]
       ELSE /\ cycles' = [cycles EXCEPT ![i].pc = "recent"]
            /\ UNCHANGED <<error, loading>>
            /\ ev' = NoEv
  /\ UNCHANGED <<latestEarthquake, recentEarthquakes, feltEarthquakes,
                 lastUpdated, autoUpdate, hasNewData, lastDataHash,
                 timers, now, started, latestFresh, mounted>>

\* the list request failed: transport error, non-ok status or unreadable JSON
ListFailed(r) == r.status # "ok" \/ ~r.json

\* The recent-list request of cycle i resolves, in whatever way: the cycle
\* goes on to request the felt list.
RecentResponse(i) ==
  /\ mounted
  /\ i \in 1..Len(cycles)
  /\ cycles[i].pc = "recent"
  /\ cycles' = [cycles EXCEPT ![i].pc = "felt"]
  /\ ev' = NoEv
  /\ UNCHANGED <<latestEarthquake, recentEarthquakes, feltEarthquakes, loading,
                 error, lastUpdated, autoUpdate, hasNewData, lastDataHash,
                 timers, now, started, latestFresh, mounted>>

\* The felt-list request of cycle i resolves and the cycle runs to its end.
\* xml is the body the latest-event request returned, lists holds the
\* outcomes of the two list requests, permission is what
\* Notification.permission reads.  Change check, notification, the batch of
\* setters, finally; then the effect if the batch changed lastDataHash or
\* hasNewData.
FeltResponse(i, xml, lists, permission) ==
  /\ mounted
  /\ i \in 1..Len(cycles)
  /\ cycles[i].pc = "felt"
  /\ LET c == cycles[i]
         parsedLatest == parseXMLData(xml)
         rr == lists[1]
         fr == lists[2]
         newRecent == ListOf(rr)
         newFelt == ListOf(fr)
         newHash == generateDataHash(parsedLatest, newRecent, newFelt)
         newHasNew == CommittedHasNew(c, newHash)
         rest == AfterCommit(i)
         rerun == EffectDeps(autoUpdate, newHash, newHasNew)
                    # EffectDeps(autoUpdate, lastDataHash, hasNewData)
     IN
     /\ rerun => started < MaxCycles
     /\ started' = IF rerun THEN Counted(started) ELSE started
     /\ now' = 1 - now
     /\ ev' = [kind |-> "commit", i |-> i, origin |-> c.origin, silent |-> c.silent,
               sameHash |-> (newHash = c.capHash), xml |-> xml, lists |-> lists,
               permission |-> permission,
               alerts |-> Notifications(c, parsedLatest, newHash, permission)]
     /\ latestEarthquake' = CommittedLatest(parsedLatest)
     /\ recentEarthquakes' = newRecent
     /\ feltEarthquakes' = newFelt
     /\ lastDataHash' = newHash
     /\ lastUpdated' = Some(now')
     /\ hasNewData' = newHasNew
     /\ latestFresh' = (parsedLatest # Null)
     /\ IF rerun
          THEN /\ cycles' = Append(rest, NewCycle("effect", FALSE, newHash, newHasNew))
               /\ timers' = Rearm(autoUpdate, timers, newHash, newHasNew)
               /\ loading' = TRUE
               /\ error' = Null
          ELSE /\ cycles' = rest
               /\ timers' = timers
               /\ loading' = FinallyLoading(c)
               /\ error' = error
  /\ UNCHANGED <<autoUpdate, mounted>>

\* The interval t fires: fetchAllEarthquakeData(true) through its callback.
Tick(t) ==
  /\ mounted
  /\ t \in timers
  /\ started < MaxCycles
  /\ started' = Counted(started)
  /\ Len(cycles) < MaxInFlight
  /\ cycles' = Append(cycles, NewCycle("timer", TRUE, t.capHash, t.capHasNew))
  /\ ev' = [kind |-> "start", origin |-> "timer", silent |-> TRUE]
  /\ UNCHANGED <<latestEarthquake, recentEarthquakes, feltEarthquakes, loading,
                 error, lastUpdated, autoUpdate, hasNewData, lastDataHash,
                 timers, now, latestFresh, mounted>>

\* the screen shown: the loading screen and the error screen replace the page
Screen ==
  IF loading /\ latestEarthquake = Null THEN "loading"
  ELSE IF error # Null /\ latestEarthquake = Null THEN "error"
  ELSE "main"

\* The user presses a refresh button: "Coba Lagi" of the error screen, or the
\* refresh button of the page, which is disabled while loading.
ManualRefresh ==
  /\ mounted
  /\ started < MaxCycles
  /\ started' = Counted(started)
  /\ Screen = "error" \/ (Screen = "main" /\ ~loading)
  /\ Len(cycles) < MaxInFlight
  /\ cycles' = Append(cycles, NewCycle("manual", FALSE, lastDataHash, hasNewData))
  /\ loading' = TRUE
  /\ error' = Null
  /\ ev' = [kind |-> "start", origin |-> "manual", silent |-> FALSE]
  /\ UNCHANGED <<latestEarthquake, recentEarthquakes, feltEarthquakes,
                 lastUpdated, autoUpdate, hasNewData, lastDataHash,
                 timers, now, latestFresh, mounted>>

\* The user presses the auto-update button: setAutoUpdate(!autoUpdate), and the
\* effect runs again: cleanup, fetchAllEarthquakeData(), a new interval if
\* autoUpdate.
ToggleAutoUpdate ==
  /\ mounted
  /\ started < MaxCycles
  /\ started' = Counted(started)
  /\ Screen = "main"
  /\ Len(cycles) < MaxInFlight
  /\ autoUpdate' = ~autoUpdate
  /\ cycles' = Append(cycles, NewCycle("effect", FALSE, lastDataHash, hasNewData))
  /\ timers' = Rearm(autoUpdate', timers, lastDataHash, hasNewData)
  /\ loading' = TRUE
  /\ error' = Null
  /\ ev' = [kind |-> "toggle"]
  /\ UNCHANGED <<latestEarthquake, recentEarthquakes, feltEarthquakes,
                 lastUpdated, hasNewData, lastDataHash,
                 now, latestFresh, mounted>>

Next ==
  \/ \E i \in 1..MaxInFlight, st \in FetchStatus : LatestResponse(i, st)
  \/ \E i \in 1..MaxInFlight : RecentResponse(i)
  \/ \E i \in 1..MaxInFlight, xml \in XmlFeed, lists \in ListResponses,
        p \in Permissions : FeltResponse(i, xml, lists, p)
  \/ \E t \in timers : Tick(t)
  \/ ManualRefresh
  \/ ToggleAutoUpdate

Spec == Init /\ [][Next]_vars

\* ------------------------------------------------------------- scheduling
\* The same machine left to itself (no user command) on a narrower feed,
\* under the scheduling the runtime gives: an interval that stays armed for
\* its 30 s fires, and every request that was made is answered or rejected.
XmlLive == {XmlNoRoot, XmlDoc(T1, <<"7", ".", "0">>)}

ListsLive == {<<RecentFeed, FeltFeed>>, <<[status |-> "neterr"], FeltFeed>>}

Commit(i) ==
  \E xml \in XmlLive, lists \in ListsLive : FeltResponse(i, xml, lists, "granted")

NextLive ==
  \/ \E i \in 1..MaxInFlight, st \in FetchStatus : LatestResponse(i, st)
  \/ \E i \in 1..MaxInFlight : RecentResponse(i)
  \/ \E i \in 1..MaxInFlight : Commit(i)
  \/ \E t \in timers : Tick(t)

\* the hashes a cycle can store on this feed, and the intervals the effect can arm
HashesLive ==
  {<<>>} \cup { generateDataHash(parseXMLData(xml), ListOf(lists[1]), ListOf(lists[2])) :
                  xml \in XmlLive, lists \in ListsLive }

TimersLive == { Timer(h, n) : h \in HashesLive, n \in BOOLEAN }

\* an interval that stays armed fires; a request that was made is answered
Fairness ==
  /\ \A t \in TimersLive : WF_vars(Tick(t))
  /\ \A i \in 1..MaxInFlight :
       /\ WF_vars(\E st \in FetchStatus : LatestResponse(i, st))
       /\ WF_vars(RecentResponse(i))
       /\ WF_vars(Commit(i))

\* the initial state of a run that does not count its cycles
InitLive ==
  /\ latestEarthquake = Null
  /\ recentEarthquakes = <<>>
  /\ feltEarthquakes = <<>>
  /\ loading = TRUE
  /\ error = Null
  /\ lastUpdated = Null
  /\ autoUpdate = TRUE
  /\ hasNewData = FALSE
  /\ lastDataHash = <<>>
  /\ cycles = <<NewCycle("effect", FALSE, <<>>, FALSE)>>
  /\ timers = {Timer(<<>>, FALSE)}
  /\ now = 0
  /\ started = 0
  /\ latestFresh = TRUE
  /\ mounted = TRUE
  /\ ev = NoEv

FairSpec == InitLive /\ [][NextLive]_vars /\ Fairness

\* --------------------------------------------------------------- teardown
\* The component is unmounted: the cleanup of the effect runs
\* (clearInterval); nothing stops the calls of fetchAllEarthquakeData in
\* flight.
Unmount ==
  /\ mounted
  /\ mounted' = FALSE
  /\ timers' = Cleanup(timers)
  /\ ev' = [kind |-> "unmount"]
  /\ UNCHANGED <<latestEarthquake, recentEarthquakes, feltEarthquakes, loading,
                 error, lastUpdated, autoUpdate, hasNewData, lastDataHash,
                 cycles, now, started, latestFresh>>

\* Cycle i of the unmounted component runs on to its end: a failed
\* latest-event request ends it in the catch block; otherwise it runs the
\* change check, with its notification, and its setters, which React ignores
\* for an unmounted component.
AfterUnmount(i, status, xml, lists, permission) ==
  /\ ~mounted
  /\ i \in 1..Len(cycles)
  /\ LET c == cycles[i]
         thrown == c.pc = "latest" /\ status # "ok"
         parsedLatest == parseXMLData(xml)
         newHash == generateDataHash(parsedLatest, ListOf(lists[1]), ListOf(lists[2]))
     IN  ev' = [kind |-> "orphan", i |-> i, silent |-> c.silent,
                alerts |-> IF thrown THEN <<>>
                           ELSE Notifications(c, parsedLatest, newHash, permission)]
  /\ cycles' = RemoveAt(cycles, i)
  /\ UNCHANGED <<latestEarthquake, recentEarthquakes, feltEarthquakes, loading,
                 error, lastUpdated, autoUpdate, hasNewData, lastDataHash,
                 timers, now, started, latestFresh, mounted>>

\* the machine with its teardown, on the narrower feed
NextMount ==
  \/ \E i \in 1..MaxInFlight, st \in FetchStatus : LatestResponse(i, st)
  \/ \E i \in 1..MaxInFlight : RecentResponse(i)
  \/ \E i \in 1..MaxInFlight : Commit(i)
  \/ \E t \in timers : Tick(t)
  \/ ManualRefresh
  \/ ToggleAutoUpdate
  \/ Unmount
  \/ \E i \in 1..MaxInFlight, st \in FetchStatus, xml \in XmlLive,
        lists \in ListsLive, p \in Permissions : AfterUnmount(i, st, xml, lists, p)

SpecMount == Init /\ [][NextMount]_vars

\* ------------------------------------------- one cycle at a time, wide feeds
\* The functions of a cycle (parseXMLData, the list slices, generateDataHash,
\* the change check, the setters) applied to feeds drawn from wider sets, one
\* cycle after the other: each cycle runs from its call to its end before the
\* next is called, through a callback that closed over the stored state.

DigitChars == <<"0", "1", "2", "3", "4", "5", "6", "7", "8", "9">>

\* the DateTime of the k-th entry of a long feed
Stamp(k) == <<"T", DigitChars[(k \div 10) + 1], DigitChars[(k % 10) + 1]>>

\* a list entry with a magnitude of its own
EntryWith(dt, mag) == [DateTime |-> dt, Magnitude |-> mag]

\* a feed of n entries with n different DateTimes
LongFeed(n) == ListBody([k \in 1..n |-> Entry(Stamp(k))])

\* a body that parses as JSON and has no Infogempa.gempa
NoListBody == [status |-> "ok", json |-> TRUE, hasList |-> FALSE]

\* documents of the latest event: the ones of XmlFeed and the event T1 with
\* its magnitude corrected
XmlWide == XmlFeed \cup {XmlDoc(T1, <<"6", ".", "5">>)}

\* answers of the recent-list request: empty, one entry, two entries in both
\* orders, an entry with an empty DateTime, an entry with another magnitude,
\* exactly ListLimit entries, more than ListLimit entries, no list, failures
RecentWide ==
  { ListBody(<<>>),
    ListBody(<<Entry(T1)>>),
    ListBody(<<Entry(T1), Entry(T2)>>),
    ListBody(<<Entry(T2), Entry(T1)>>),
    ListBody(<<Entry(<<>>)>>),
    ListBody(<<EntryWith(T1, <<"5", ".", "4">>)>>),
    LongFeed(ListLimit),
    LongFeed(ListLimit + 5),
    NoListBody,
    [status |-> "neterr"],
    [status |-> "ok", json |-> FALSE] }

\* answers of the felt-list request
FeltWide ==
  { FeltFeed, LongFeed(ListLimit + 1), [status |-> "notok"] }

InitFeed ==
  /\ latestEarthquake = Null
  /\ recentEarthquakes = <<>>
  /\ feltEarthquakes = <<>>
  /\ loading = TRUE
  /\ error = Null
  /\ lastUpdated = Null
  /\ autoUpdate = TRUE
  /\ hasNewData = FALSE
  /\ lastDataHash = <<>>
  /\ cycles = <<>>
  /\ timers = {}
  /\ now = 0
  /\ started = 0
  /\ latestFresh = TRUE
  /\ mounted = TRUE
  /\ ev = NoEv

\* fetchAllEarthquakeData(silent) from its call to its end, the latest-event
\* request answered ok with xml and the list requests answered with lists
CycleAtOnce(silent, xml, lists, permission) ==
  LET c == NewCycle(IF silent THEN "timer" ELSE "manual", silent,
                    lastDataHash, hasNewData)
      parsedLatest == parseXMLData(xml)
      newRecent == ListOf(lists[1])
      newFelt == ListOf(lists[2])
      newHash == generateDataHash(parsedLatest, newRecent, newFelt)
  IN
  /\ now' = 1 - now
  /\ ev' = [kind |-> "cycle", silent |-> silent, xml |-> xml, lists |-> lists,
            latest |-> parsedLatest, recent |-> newRecent, felt |-> newFelt,
            permission |-> permission,
            alerts |-> Notifications(c, parsedLatest, newHash, permission)]
  /\ latestEarthquake' = CommittedLatest(parsedLatest)
  /\ recentEarthquakes' = newRecent
  /\ feltEarthquakes' = newFelt
  /\ lastDataHash' = newHash
  /\ lastUpdated' = Some(now')
  /\ hasNewData' = CommittedHasNew(c, newHash)
  /\ latestFresh' = (parsedLatest # Null)
  /\ loading' = FinallyLoading(c)
  /\ error' = IF silent THEN error ELSE Null
  /\ UNCHANGED <<autoUpdate, cycles, timers, started, mounted>>

\* permission is granted throughout, so that every notification due is sent
NextFeed ==
  \E silent \in BOOLEAN, xml \in XmlWide, r \in RecentWide, f \in FeltWide :
     CycleAtOnce(silent, xml, <<r, f>>, "granted")

SpecFeed == InitFeed /\ [][NextFeed]_vars

\* -------------------------------------- the latest event parsed and rendered
LightBelowMilli == 5000      \* mag < 5.0, in thousandths
ModerateBelowMilli == 6000   \* mag < 6.0, in thousandths

\* getMagnitudeInfo(magnitude).classification
getMagnitudeInfo(magnitude) ==
  LET mag == parseFloat(magnitude)
  IN  IF NumLT(mag, LightBelowMilli) THEN "Gempa Ringan"
      ELSE IF NumLT(mag, ModerateBelowMilli) THEN "Gempa Sedang"
      ELSE "Gempa Kuat"

\* const magnitudeInfo = latestEarthquake ? getMagnitudeInfo(...) : null
magnitudeInfo ==
  IF latestEarthquake # Null
    THEN Some(getMagnitudeInfo(latestEarthquake[1].Magnitude))
    ELSE Null

\* the tags a document of the latest event may or may not carry
DocTags == {"DateTime", "Magnitude", "Wilayah", "Shakemap"}

\* texts of the Magnitude tag: around both thresholds, padded with white
\* space, negative, empty, and not numeric
MagnitudeTexts ==
  { <<"4", ".", "9">>, <<"5", ".", "0">>, <<" ", "5", ".", "9", " ">>,
    <<"6", ".", "0">>, <<"7", ".", "2">>, <<"-", "1">>, <<>>, <<"M", "7">> }

TagTexts(t) ==
  CASE t = "Magnitude" -> MagnitudeTexts
    [] t = "DateTime" -> {T1}
    [] t = "Wilayah" -> {<<"A">>, <<" ">>}
    [] t = "Shakemap" -> {<<"S">>}

\* the documents: no gempa element, or a gempa element with any subset of
\* DocTags, each tag with one of its texts
XmlTags ==
  {XmlNoRoot} \cup
  UNION { { [hasGempa |-> TRUE, tags |-> f] :
              f \in { g \in [present -> UNION {TagTexts(t) : t \in present}] :
                        \A t \in present : g[t] \in TagTexts(t) } } :
          present \in SUBSET DocTags }

\* cycles on these documents, the lists answering as always
NextParse ==
  \E silent \in BOOLEAN, xml \in XmlTags :
     CycleAtOnce(silent, xml, <<RecentFeed, FeltFeed>>, "granted")

SpecParse == InitFeed /\ [][NextParse]_vars

\* ------------------------------------------------------------------ claims
\* the cycle that ended in the step, as it was in flight before the step
Ended == cycles[ev'.i]

\* the step is the end of a cycle by a commit / by the outer catch
CommitStep == ev'.kind = "commit"
FailStep == ev'.kind = "fail"

\* the part of the snapshot C5 names
snapshotData == <<latestEarthquake, recentEarthquakes, feltEarthquakes,
                  lastDataHash, hasNewData>>

\* what a commit stores of a cycle's result
snapshotResult == <<latestEarthquake, recentEarthquakes, feltEarthquakes,
                    lastDataHash>>

\* C1: the result of a cycle never overwrites the snapshot committed by a
\* cycle that started later: the end of a cycle that a later-started cycle has
\* overtaken by committing leaves the stored latest, recent, felt and
\* signature as they are.
C1_NoStaleCommit ==
  [][(CommitStep /\ Ended.superseded) => snapshotResult' = snapshotResult]_vars

\* C2: a cycle dispatches an alert if and only if it is silent, the signature
\* it compares against is non-empty and differs from the candidate signature,
\* the candidate latest event exists with a magnitude that parses to a number
\* >= 6.0, and permission is granted; then it dispatches exactly one; a
\* foreground cycle dispatches none.
C2_AlertIff ==
  [][CommitStep =>
       LET parsedLatest == parseXMLData(ev'.xml)
           due == /\ Ended.silent
                  /\ Ended.capHash # <<>>
                  /\ lastDataHash' # Ended.capHash
                  /\ parsedLatest # Null
                  /\ NumGE(parseFloat(parsedLatest[1].Magnitude), StrongMilli)
                  /\ ev'.permission = "granted"
       IN  /\ Len(ev'.alerts) = (IF due THEN 1 ELSE 0)
           /\ ~Ended.silent => ev'.alerts = <<>>]_vars

\* C2 witness: a silent cycle has just dispatched an alert.
C2_Witness ==
  /\ ev.kind = "commit"
  /\ ev.silent
  /\ Len(ev.alerts) = 1
  /\ ev.permission = "granted"
  /\ latestEarthquake # Null
  /\ latestEarthquake[1].Magnitude = <<"7", ".", "0">>

\* C3: a foreground cycle whose latest-event document lacks the root element
\* leaves the snapshot as it was and reports an error.
C3_NoRootKeepsSnapshot ==
  [][(CommitStep /\ ~ev'.silent /\ ~ev'.xml.hasGempa)
       => (snapshot' = snapshot /\ error' = ErrorText)]_vars

\* C4: a foreground cycle whose latest-event request fails (transport error
\* or non-ok status) commits nothing, surfaces an error and clears loading.
C4_ForegroundFailure ==
  [][(FailStep /\ ~ev'.silent)
       => (snapshot' = snapshot /\ error' = ErrorText /\ loading' = FALSE)]_vars

\* C4 witness: a foreground cycle has just failed on a non-ok status while a
\* snapshot was stored.
C4_Witness ==
  /\ ev.kind = "fail"
  /\ ~ev.silent
  /\ ev.status = "notok"
  /\ error = ErrorText
  /\ ~loading
  /\ lastUpdated # Null

\* C5: a background cycle whose latest source fails, by network or by parse
\* failure, surfaces no error and leaves the snapshot as it was.
C5_BackgroundFailureSwallowed ==
  [][((FailStep /\ ev'.silent) \/ (CommitStep /\ ev'.silent /\ ~ev'.xml.hasGempa))
       => (error' = error /\ snapshotData' = snapshotData)]_vars

\* C6: when the latest source succeeds, a failed recent or felt request does
\* not fail the cycle: the cycle stores that latest event, the failed list
\* empty, and sets no error.
C6_ListFailureNotFatal ==
  [][(CommitStep /\ ev'.xml.hasGempa
        /\ (ListFailed(ev'.lists[1]) \/ ListFailed(ev'.lists[2])))
       => /\ latestEarthquake' = parseXMLData(ev'.xml)
          /\ ListFailed(ev'.lists[1]) => recentEarthquakes' = <<>>
          /\ ListFailed(ev'.lists[2]) => feltEarthquakes' = <<>>
          /\ ~ListFailed(ev'.lists[1]) => recentEarthquakes' = ev'.lists[1].gempa
          /\ ~ListFailed(ev'.lists[2]) => feltEarthquakes' = ev'.lists[2].gempa
          /\ error' \in {error, Null}]_vars

\* C6 witness: a foreground cycle has just committed a latest event with the
\* recent request failed, over a stored recent list that was not empty.
C6_Witness ==
  /\ ev.kind = "commit"
  /\ ~ev.silent
  /\ ev.xml.hasGempa
  /\ ev.lists[1].status = "neterr"
  /\ latestEarthquake # Null
  /\ recentEarthquakes = <<>>
  /\ feltEarthquakes # <<>>
  /\ error = Null

\* C7: hasNewData goes from true to false only by a user-triggered refresh.
C7_ClearedOnlyByUser ==
  [][(hasNewData /\ ~hasNewData')
       => (CommitStep /\ ev'.origin = "manual")]_vars

\* C8: hasNewData becomes true only at the end of a silent cycle whose
\* candidate signature differs from the signature it compares against; a
\* silent cycle whose candidate signature equals it leaves hasNewData as it
\* was and dispatches no alert.
C8_SetOnlyOnBackgroundChange ==
  [][/\ (~hasNewData /\ hasNewData')
          => (CommitStep /\ Ended.silent /\ lastDataHash' # Ended.capHash)
     /\ (CommitStep /\ Ended.silent /\ lastDataHash' = Ended.capHash)
          => (hasNewData' = hasNewData /\ ev'.alerts = <<>>)]_vars

\* C8 witness: a silent cycle has just committed a candidate with the
\* signature it compared against and magnitude 7.0, permission granted:
\* hasNewData is false and no alert went out.
C8_Witness ==
  /\ ev.kind = "commit"
  /\ ev.silent
  /\ ev.sameHash
  /\ ev.permission = "granted"
  /\ ev.xml.hasGempa
  /\ latestEarthquake[1].Magnitude = <<"7", ".", "0">>
  /\ ~hasNewData
  /\ ev.alerts = <<>>

\* C9: after a commit the stored signature is the signature of the stored
\* latest event, recent list and felt list.
C9_SignatureDescribesSnapshot ==
  lastUpdated # Null
    => lastDataHash = generateDataHash(latestEarthquake, recentEarthquakes,
                                       feltEarthquakes)

\* C10: the stored latest event and the stored lists come from the same cycle.
C10_SnapshotFromOneCycle ==
  latestEarthquake # Null => latestFresh

\* C11: switching autoUpdate from false to true arms the timer and starts no
\* fetch: the cycles in flight are the same after the toggle as before it.
C11_ToggleOnStartsNoFetch ==
  [][(~autoUpdate /\ autoUpdate') => (cycles' = cycles /\ timers' # {})]_vars

\* C12: while autoUpdate is false no timer is armed, and a timer-started
\* (silent) cycle starts only while autoUpdate is true.
C12_OffCancelsTimer ==
  [][/\ ~autoUpdate' => timers' = {}
     /\ (ev'.kind = "start" /\ ev'.origin = "timer") => (autoUpdate /\ autoUpdate')]_vars

\* C12 witness: autoUpdate was switched off, a cycle has committed since with
\* a new hash (the effect ran again), and still no timer is armed.
C12_Witness ==
  /\ ~autoUpdate
  /\ ev.kind = "commit"
  /\ ~ev.sameHash
  /\ timers = {}
  /\ cycles # <<>>

\* C13: at every moment at most one refresh cycle is in flight.
C13_AtMostOneInFlight == Len(cycles) <= 1

\* C14: the three requests of a cycle are issued without waiting for one
\* another, so a cycle that ends, by a commit or by a failure, has issued all
\* three.
C14_AllSourcesRequested ==
  [][(CommitStep \/ FailStep) => Issued(Ended) = Sources]_vars

\* the list request returned a feed
FeedReturned(resp) == resp.status = "ok" /\ resp.json /\ resp.hasList

\* stored is at most 15 entries long and, when the request returned a feed
\* of n entries, is its first min(n, 15) entries in feed order
FirstOfFeed(stored, resp) ==
  /\ Len(stored) <= 15
  /\ FeedReturned(resp) =>
       /\ Len(stored) = (IF Len(resp.gempa) < 15 THEN Len(resp.gempa) ELSE 15)
       /\ \A k \in 1..Len(stored) : stored[k] = resp.gempa[k]

\* C15: after every cycle the stored recent list and the stored felt list
\* hold at most 15 entries, each the first min(n, 15) entries of the n-entry
\* feed of that cycle, in feed order.
C15_ListsTruncated ==
  ev.kind = "cycle" =>
    /\ FirstOfFeed(recentEarthquakes, ev.lists[1])
    /\ FirstOfFeed(feltEarthquakes, ev.lists[2])

\* C15 witness: a feed of 20 entries was stored as its first 15, and a feed
\* of 16 entries as its first 15.
C15_Witness ==
  /\ ev.kind = "cycle"
  /\ FeedReturned(ev.lists[1]) /\ Len(ev.lists[1].gempa) = 20
  /\ Len(recentEarthquakes) = 15
  /\ recentEarthquakes[15].DateTime = <<"T", "1", "5">>
  /\ FeedReturned(ev.lists[2]) /\ Len(ev.lists[2].gempa) = 16
  /\ Len(feltEarthquakes) = 15

\* the timestamps of a candidate: the latest DateTime (empty if there is no
\* latest event), the recent DateTimes in order, the felt DateTimes in order
TimestampsOf(e) ==
  << IF e.latest = Null THEN <<>> ELSE e.latest[1].DateTime,
     [k \in 1..Len(e.recent) |-> e.recent[k].DateTime],
     [k \in 1..Len(e.felt) |-> e.felt[k].DateTime] >>

\* the step is a cycle that follows a cycle
CycleAfterCycle == ev.kind = "cycle" /\ ev'.kind = "cycle"

\* C16: two candidates whose timestamps differ, be it only in the order or
\* in the number of the entries of a list, get different signatures.
C16_SignatureDetectsChange ==
  [][(CycleAfterCycle /\ TimestampsOf(ev') # TimestampsOf(ev))
       => lastDataHash' # lastDataHash]_vars

C18_ForegroundClears ==
  [][(CommitStep /\ ~Ended.silent) => ~hasNewData']_vars

\* the step starts a foreground cycle by a user command
ForegroundStart ==
  (ev'.kind = "start" /\ ev'.origin = "manual") \/ ev'.kind = "toggle"

\* the step is the start or the end of a background cycle
BackgroundStep ==
  \/ ev'.kind = "start" /\ ev'.origin = "timer"
  \/ (CommitStep \/ FailStep) /\ Ended.silent

\* C19: the start of a foreground cycle clears the error and sets loading; a
\* background cycle changes neither loading nor the error, at its start and
\* at its end, by a commit or by a failure.
C19_FrameOfLoadingAndError ==
  [][/\ ForegroundStart => (error' = Null /\ loading')
     /\ BackgroundStep => (loading' = loading /\ error' = error)]_vars

\* the last step was the end of a cycle with a failure in it: the latest
\* request failed, the document had no gempa element, or a list request failed
CycleFailed ==
  \/ ev.kind = "fail"
  \/ /\ ev.kind = "commit"
     /\ ~ev.xml.hasGempa \/ ListFailed(ev.lists[1]) \/ ListFailed(ev.lists[2])

SilentInFlight == \E i \in 1..Len(cycles) : cycles[i].silent

\* the last step was a tick of the interval starting a background cycle
BackgroundStarted == ev.kind = "start" /\ ev.origin = "timer"

\* the last step was the end of a background cycle
BackgroundEnded == ev.kind \in {"commit", "fail"} /\ ev.silent

\* C20: no failure stops the engine.  While autoUpdate is true an interval is
\* armed; after a cycle has failed in any way, with autoUpdate true, a later
\* tick starts a background cycle unless autoUpdate is switched off; a
\* background cycle that started comes to its end, which is a commit for a
\* cycle whose latest-event request succeeded.
C20_EngineResumes ==
  /\ [](autoUpdate => timers # {})
  /\ (CycleFailed /\ autoUpdate /\ ~SilentInFlight)
        ~> (BackgroundStarted \/ ~autoUpdate)
  /\ BackgroundStarted ~> BackgroundEnded
  /\ [][(FailStep \/ CommitStep)
          => (Ended.pc = "latest" <=> FailStep)]_vars

\* C21: a cycle in flight is cancelled by the start of a newer cycle and by
\* the teardown of the component: a cycle that commits is the most recently
\* started of the cycles in flight and sends no notification otherwise, and a
\* cycle that ends after the teardown sends no notification.
C21_SupersededCancelled ==
  [][/\ CommitStep => ev'.i = Len(cycles)
     /\ ev'.kind = "orphan" => ev'.alerts = <<>>]_vars

\* C22: the classification is fail-safe: a stored magnitude that does not
\* parse as a number is classified 'Gempa Ringan'; one that parses is
\* 'Gempa Ringan' below 5.0, 'Gempa Sedang' from 5.0 and below 6.0, and
\* 'Gempa Kuat' from 6.0.
C22_ClassificationFailSafe ==
  latestEarthquake # Null =>
    LET m == parseFloat(latestEarthquake[1].Magnitude)
        shown == magnitudeInfo[1]
    IN  /\ m.nan => shown = "Gempa Ringan"
        /\ ~m.nan /\ m.milli < 5000 => shown = "Gempa Ringan"
        /\ ~m.nan /\ m.milli >= 5000 /\ m.milli < 6000 => shown = "Gempa Sedang"
        /\ ~m.nan /\ m.milli >= 6000 => shown = "Gempa Kuat"

\* x is s without its leading and trailing white space
IsTrimOf(x, s) ==
  /\ x # <<>> => x[1] \notin WhiteSpace /\ x[Len(x)] \notin WhiteSpace
  /\ \E i \in 0..Len(s) :
       /\ i + Len(x) <= Len(s)
       /\ SubSeq(s, i + 1, i + Len(x)) = x
       /\ \A k \in (1..i) \cup ((i + Len(x) + 1)..Len(s)) : s[k] \in WhiteSpace

\* a cycle has parsed the document ev'.xml into ev'.latest
ParseStep == ev'.kind = "cycle"

\* C23 as stated: the parser fails exactly when the gempa element is absent;
\* else the record has eleven fields, a field of a missing tag is the empty
\* string and a field of a present tag is the text of the tag.
C23_ElevenFieldsOfTagText ==
  [][ParseStep =>
       /\ ev'.latest = Null <=> ~ev'.xml.hasGempa
       /\ ev'.latest # Null =>
            /\ Cardinality(DOMAIN ev'.latest[1]) = 11
            /\ \A t \in DOMAIN ev'.latest[1] :
                 ev'.latest[1][t] = IF t \in DOMAIN ev'.xml.tags
                                      THEN ev'.xml.tags[t] ELSE <<>>]_vars

\* C23, amended: the parser fails exactly when the gempa element is absent;
\* else the record has twelve fields, a field of a missing tag is the empty
\* string and a field of a present tag is the text of the tag without its
\* leading and trailing white space, the magnitude too (a string, "5.0"
\* stays "5.0").
C23_TwelveFieldsTrimmed ==
  [][ParseStep =>
       /\ ev'.latest = Null <=> ~ev'.xml.hasGempa
       /\ ev'.latest # Null =>
            /\ Cardinality(DOMAIN ev'.latest[1]) = 12
            /\ \A t \in DOMAIN ev'.latest[1] :
                 IF t \in DOMAIN ev'.xml.tags
                   THEN IsTrimOf(ev'.latest[1][t], ev'.xml.tags[t])
                   ELSE ev'.latest[1][t] = <<>>]_vars

\* a document with a padded magnitude and without the Shakemap tag was parsed
C23_Witness ==
  /\ ev.kind = "cycle"
  /\ ev.latest # Null
  /\ "Shakemap" \notin DOMAIN ev.xml.tags
  /\ "Magnitude" \in DOMAIN ev.xml.tags
  /\ ev.xml.tags["Magnitude"] = <<" ", "5", ".", "9", " ">>
  /\ ev.latest[1].Magnitude = <<"5", ".", "9">>
  /\ ev.latest[1].Shakemap = <<>>

\* a step in which fetchAllEarthquakeData was called
CycleStarted == started' = started + 1

\* C24: after the initial load a refresh cycle starts only in a manual refresh
\* or in a tick of the timer while autoUpdate is true; no commit (with its
\* change of the stored signature or of hasNewData) starts a further cycle.
C24_StartsOnlyOnCommandOrTick ==
  [][CycleStarted =>
       /\ ev'.kind = "start"
       /\ ev'.origin = "manual" \/ (ev'.origin = "timer" /\ autoUpdate)]_vars

\* C25: a cycle sends no notification when its candidate signature equals the
\* signature stored at the moment it commits (so one change of the feed is
\* notified at most once, whatever cycles were in flight together).
C25_NoAlertOnStoredSignature ==
  [][CommitStep /\ lastDataHash' = lastDataHash => ev'.alerts = <<>>]_vars

\* two answers of one source that the same upstream content can have given:
\* the same answer, or one of the two is a failure
SameOrFailed(a, b, failed(_)) == a = b \/ failed(a) \/ failed(b)

XmlFailed(xml) == ~xml.hasGempa

\* a background cycle follows a cycle, and every source answered as in the
\* cycle before or failed in one of the two
BackgroundOnSameEvents ==
  /\ ev.kind = "cycle"
  /\ ev'.kind = "cycle"
  /\ ev'.silent
  /\ SameOrFailed(ev.xml, ev'.xml, XmlFailed)
  /\ SameOrFailed(ev.lists[1], ev'.lists[1], ListFailed)
  /\ SameOrFailed(ev.lists[2], ev'.lists[2], ListFailed)

\* C26: a background cycle on the events of the commit before, where the only
\* difference is a failed list request or an unparsable latest document in one
\* of the two cycles, does not raise hasNewData and sends no notification.
C26_FailureIsNoNews ==
  [][BackgroundOnSameEvents =>
       /\ hasNewData' => hasNewData
       /\ ev'.alerts = <<>>]_vars

\* a cycle called with silent = false is in flight
ForegroundInFlight == \E i \in 1..Len(cycles) : ~cycles[i].silent

\* C27: loading is true exactly while a foreground cycle is in flight, also
\* when foreground cycles overlap.
C27_LoadingIffForegroundInFlight == loading <=> ForegroundInFlight

\* C28: once a latest event is stored, the stored latest event is never absent
\* again, whatever the requests and the parser of later cycles do.
C28_LatestNeverAbsentAgain ==
  [][latestEarthquake # Null => latestEarthquake' # Null]_vars

\* C28 witness: a cycle whose document had no gempa element has committed,
\* and a latest event is stored
C28_Witness ==
  /\ ev.kind = "commit"
  /\ ~ev.xml.hasGempa
  /\ latestEarthquake # Null

\* C29: at most one polling timer is armed at any moment, and none while
\* autoUpdate is false or after the teardown.
C29_AtMostOneTimer ==
  /\ Cardinality(timers) <= 1
  /\ ~autoUpdate => timers = {}
  /\ ~mounted => timers = {}

\* C29 witness: a commit changed the stored hash, the effect ran again, and
\* the one timer armed is the one of the new callback
C29_Witness ==
  /\ ev.kind = "commit"
  /\ autoUpdate
  /\ lastDataHash # <<>>
  /\ timers = {Timer(lastDataHash, hasNewData)}
====
